---- MODULE Spec2Model ----
(***************************************************************************)
(* Model of the BDD scaffold's per-scenario registry (src/support/world.ts),*)
(* its lifecycle hooks (src/support/hooks.ts), the step definitions         *)
(* (src/step-definitions/blankfactor.steps.ts), the orchestrators and the   *)
(* page objects they drive (src/orchestration/*.ts, src/pages/*.ts), and    *)
(* the runner script that spawns the test process (run.js).                 *)
(*                                                                         *)
(* JavaScript values are records tagged by "type", so that any two values   *)
(* can be compared.  An object is identified by its allocation: oid says    *)
(* which World, which registry, which key and which construction for that   *)
(* key produced it, so two evaluations of `new` never yield equal objects.  *)
(***************************************************************************)
EXTENDS Integers, Sequences, FiniteSets, TLC

\* ------------------------------------------------------------------ values

\* The two Scenarios of the feature file; each gets its own World.
NumScenarios == 2
\* `--parallel 2`: the number of worker processes in parallel mode.
NumWorkers == 2

Worlds == 1..NumScenarios
Workers == 1..NumWorkers

\* JavaScript `undefined`: an unset optional field, a Map miss.
Undefined == [type |-> "undefined"]

\* The Page handle `context.newPage()` yields for World w, and its context.
ContextOf(w) == [type |-> "BrowserContext", id |-> w]
PageOf(w) == [type |-> "Page", id |-> w]

\* The handle a second `context.newPage()` yields for World w.
SecondPageOf(w) == [type |-> "Page", id |-> w + NumScenarios]

\* A string value stored under a scenario-data key.
Str(s) == [type |-> "string", val |-> s]

\* Classes are constructor functions: `id` is the function's identity, `name`
\* its Function.name.  HomePageAlt is a second class that is also called
\* HomePage (a page object of another module).
HomePage == [id |-> "pages/homepage.page#HomePage", name |-> "HomePage"]
HomePageAlt == [id |-> "other#HomePage", name |-> "HomePage"]
RetirementPage == [id |-> "pages/retirement.page#RetirementPage", name |-> "RetirementPage"]
NavigationOrchestrator ==
    [id |-> "orchestration#NavigationOrchestrator", name |-> "NavigationOrchestrator"]
ContentOrchestrator ==
    [id |-> "orchestration#ContentOrchestrator", name |-> "ContentOrchestrator"]

\* The classes the harness passes to getPage and to getOrchestrator.
PageClasses == {HomePage, HomePageAlt}
OrchestratorClasses == {NavigationOrchestrator, ContentOrchestrator}

\* Both methods take any constructor at run time: a class passed to both.
SharedClasses == {HomePage, NavigationOrchestrator}

\* The scenario-data keys the steps use, and the texts stored under them: the
\* tile description and the page title the steps expect.
DataKeys == {"copiedText", "pageTitle"}
TileDescription == Str("Automate your operations and get to market quickly ...")
ContactTitle == Str("Contact | Blankfactor")
DataValues == {TileDescription, ContactTitle}

\* The error getPage and getOrchestrator throw.
PageNotInitialized == "Page is not initialized"

\* What a call did: returned a value or threw an error.
Returned(v) == [threw |-> FALSE, value |-> v]
Threw(msg) == [threw |-> TRUE, error |-> msg]

\* ------------------------------------------------------------------- state

VARIABLES
    phase,                \* per World: position of its scenario in the runner
    result,               \* per World: the scenario's result status so far
    worker,               \* per World: the worker process it lives in
    browser,              \* per worker: hooks.ts module variable `browser`
    context,              \* per World: this.context
    page,                 \* per World: this.page
    pageRegistry,         \* per World: this.pageRegistry (Map name -> object)
    orchestratorRegistry, \* per World: this.orchestratorRegistry
    scenarioData,         \* per World: this.scenarioData (Map key -> value)
    engine,               \* per World: state of its context inside the browser
    artifacts,            \* per World: files written under reports/
    hookLog,              \* per World: browser operations the After hook made
    navigation_domain,    \* per worker: steps module variable
    content_domain,       \* per worker: steps module variable
    stepIdx,              \* per World: number of pickle steps already handled
    lastCall,             \* the most recent call of a World method
    returned,             \* per World: every <<operation, class, object>> returned
    written,              \* per World: the value last passed to setData, per key
    flow,                 \* the most recent call of an orchestrator operation
    options,              \* run.js: the options parseArgs() returned
    env,                  \* process.env of the test process
    testProcess,          \* run.js: whether the test process has been spawned
    launch                \* per worker: the options passed to chromium.launch

worldVars == <<context, page, pageRegistry, orchestratorRegistry, scenarioData>>
runnerVars == <<phase, result, worker, browser, stepIdx>>
moduleVars == <<navigation_domain, content_domain>>
browserVars == <<engine, artifacts, hookLog>>
observerVars == <<lastCall, returned, written, flow>>
processVars == <<options, env, testProcess, launch>>
vars == <<worldVars, runnerVars, moduleVars, browserVars, observerVars, processVars>>

\* -------------------------------------------------------------- JavaScript Map

EmptyMap == [k \in {} |-> Undefined]
MapHas(m, k) == k \in DOMAIN m
MapGet(m, k) == IF k \in DOMAIN m THEN m[k] ELSE Undefined
MapSet(m, k, v) == [x \in DOMAIN m \cup {k} |-> IF x = k THEN v ELSE m[x]]
MapValues(m) == {m[k] : k \in DOMAIN m}

\* ------------------------------------------------------------- constructors

\* A page object: BasePage's constructor keeps the Page handle it is given.
PageObject(cls, p, oid) ==
    [type |-> "object", cls |-> cls, page |-> p, oid |-> oid, parts |-> {}]

\* `new cls(p)`.  The orchestrator constructors build their own page objects
\* from the same handle; every other class is a plain page object.
NewObject(cls, p, oid) ==
    [type |-> "object", cls |-> cls, page |-> p, oid |-> oid,
     parts |->
        IF cls = NavigationOrchestrator
        THEN {PageObject(HomePage, p, Append(oid, "homePage")),
              PageObject(RetirementPage, p, Append(oid, "retirementPage"))}
        ELSE IF cls = ContentOrchestrator
        THEN {PageObject(RetirementPage, p, Append(oid, "retirementPage"))}
        ELSE {}]

\* The allocation a `new` evaluated for key `name` of a registry of World w
\* makes: the construction count for that key is one more than the count of
\* the object the key holds now.
NextOid(w, registryName, registry, name) ==
    <<w, registryName, name,
      IF MapHas(registry, name) THEN registry[name].oid[4] + 1 ELSE 1>>

\* ------------------------------------------------------------ World methods

\* `this` inside a method of World w: the fields the methods read and write.
This(w) ==
    [id |-> w, page |-> page[w], pageRegistry |-> pageRegistry[w],
     orchestratorRegistry |-> orchestratorRegistry[w], scenarioData |-> scenarioData[w]]

\* getPage without the registry lookup: every call constructs.
GetPageUncached(this, pageClass) ==
    LET pageName == pageClass.name
        registry == this.pageRegistry
    IN  IF this.page = Undefined
        THEN [this |-> this, cached |-> FALSE, outcome |-> Threw(PageNotInitialized)]
        ELSE LET made == NewObject(pageClass, this.page,
                                   NextOid(this.id, "pageRegistry", registry, pageName))
                 after == MapSet(registry, pageName, made)
             IN  [this |-> [this EXCEPT !.pageRegistry = after], cached |-> FALSE,
                  outcome |-> Returned(MapGet(after, pageName))]

\* getPage that registers the new object before it checks this.page.
GetPageRegisterFirst(this, pageClass) ==
    LET pageName == pageClass.name
        registry == this.pageRegistry
    IN  IF ~MapHas(registry, pageName)
        THEN LET made == NewObject(pageClass, this.page,
                                   NextOid(this.id, "pageRegistry", registry, pageName))
                 after == MapSet(registry, pageName, made)
             IN  IF this.page = Undefined
                 THEN [this |-> [this EXCEPT !.pageRegistry = after], cached |-> FALSE,
                       outcome |-> Threw(PageNotInitialized)]
                 ELSE [this |-> [this EXCEPT !.pageRegistry = after], cached |-> FALSE,
                       outcome |-> Returned(MapGet(after, pageName))]
        ELSE [this |-> this, cached |-> TRUE,
              outcome |-> Returned(MapGet(registry, pageName))]

\* getPage that constructs again when the cached object holds another handle
\* than this.page.
GetPageRevalidating(this, pageClass) ==
    LET pageName == pageClass.name
        registry == this.pageRegistry
        stale == MapHas(registry, pageName) /\ registry[pageName].page # this.page
    IN  IF ~MapHas(registry, pageName) \/ stale
        THEN IF this.page = Undefined
             THEN [this |-> this, cached |-> FALSE, outcome |-> Threw(PageNotInitialized)]
             ELSE LET made == NewObject(pageClass, this.page,
                                        NextOid(this.id, "pageRegistry", registry, pageName))
                      after == MapSet(registry, pageName, made)
                  IN  [this |-> [this EXCEPT !.pageRegistry = after], cached |-> FALSE,
                       outcome |-> Returned(MapGet(after, pageName))]
        ELSE [this |-> this, cached |-> TRUE,
              outcome |-> Returned(MapGet(registry, pageName))]

\* getPage: `this` after the call, whether the registry held the key, and
\* what the call did.
GetPage(this, pageClass) ==
    LET pageName == pageClass.name
        registry == this.pageRegistry
    IN  IF ~MapHas(registry, pageName)
        THEN IF this.page = Undefined
             THEN [this |-> this, cached |-> FALSE, outcome |-> Threw(PageNotInitialized)]
             ELSE LET made == NewObject(pageClass, this.page,
                                        NextOid(this.id, "pageRegistry", registry, pageName))
                      after == MapSet(registry, pageName, made)
                  IN  [this |-> [this EXCEPT !.pageRegistry = after], cached |-> FALSE,
                       outcome |-> Returned(MapGet(after, pageName))]
        ELSE [this |-> this, cached |-> TRUE,
              outcome |-> Returned(MapGet(registry, pageName))]

\* getOrchestrator without the check of this.page.
GetOrchestratorUnchecked(this, orchestratorClass) ==
    LET orchestratorName == orchestratorClass.name
        registry == this.orchestratorRegistry
    IN  IF ~MapHas(registry, orchestratorName)
        THEN LET made == NewObject(orchestratorClass, this.page,
                                   NextOid(this.id, "orchestratorRegistry", registry,
                                           orchestratorName))
                 after == MapSet(registry, orchestratorName, made)
             IN  [this |-> [this EXCEPT !.orchestratorRegistry = after], cached |-> FALSE,
                  outcome |-> Returned(MapGet(after, orchestratorName))]
        ELSE [this |-> this, cached |-> TRUE,
              outcome |-> Returned(MapGet(registry, orchestratorName))]

\* getOrchestrator with a registry that holds only the latest orchestrator.
GetOrchestratorEvicting(this, orchestratorClass) ==
    LET orchestratorName == orchestratorClass.name
        registry == this.orchestratorRegistry
    IN  IF ~MapHas(registry, orchestratorName)
        THEN IF this.page = Undefined
             THEN [this |-> this, cached |-> FALSE, outcome |-> Threw(PageNotInitialized)]
             ELSE LET made == NewObject(orchestratorClass, this.page,
                                        NextOid(this.id, "orchestratorRegistry", registry,
                                                orchestratorName))
                      after == MapSet(EmptyMap, orchestratorName, made)
                  IN  [this |-> [this EXCEPT !.orchestratorRegistry = after],
                       cached |-> FALSE,
                       outcome |-> Returned(MapGet(after, orchestratorName))]
        ELSE [this |-> this, cached |-> TRUE,
              outcome |-> Returned(MapGet(registry, orchestratorName))]

\* getOrchestrator that keeps its instances in the page registry.
GetOrchestratorOneRegistry(this, orchestratorClass) ==
    LET orchestratorName == orchestratorClass.name
        registry == this.pageRegistry
    IN  IF ~MapHas(registry, orchestratorName)
        THEN IF this.page = Undefined
             THEN [this |-> this, cached |-> FALSE, outcome |-> Threw(PageNotInitialized)]
             ELSE LET made == NewObject(orchestratorClass, this.page,
                                        NextOid(this.id, "pageRegistry", registry,
                                                orchestratorName))
                      after == MapSet(registry, orchestratorName, made)
                  IN  [this |-> [this EXCEPT !.pageRegistry = after],
                       cached |-> FALSE,
                       outcome |-> Returned(MapGet(after, orchestratorName))]
        ELSE [this |-> this, cached |-> TRUE,
              outcome |-> Returned(MapGet(registry, orchestratorName))]

\* getOrchestrator: the same over the orchestrator registry.
GetOrchestrator(this, orchestratorClass) ==
    LET orchestratorName == orchestratorClass.name
        registry == this.orchestratorRegistry
    IN  IF ~MapHas(registry, orchestratorName)
        THEN IF this.page = Undefined
             THEN [this |-> this, cached |-> FALSE, outcome |-> Threw(PageNotInitialized)]
             ELSE LET made == NewObject(orchestratorClass, this.page,
                                        NextOid(this.id, "orchestratorRegistry", registry,
                                                orchestratorName))
                      after == MapSet(registry, orchestratorName, made)
                  IN  [this |-> [this EXCEPT !.orchestratorRegistry = after],
                       cached |-> FALSE,
                       outcome |-> Returned(MapGet(after, orchestratorName))]
        ELSE [this |-> this, cached |-> TRUE,
              outcome |-> Returned(MapGet(registry, orchestratorName))]

\* setData that keeps the value a key already has.
SetDataKeepFirst(this, key, value) ==
    IF MapHas(this.scenarioData, key) THEN this
    ELSE [this EXCEPT !.scenarioData = MapSet(@, key, value)]

\* setData that replaces the whole map by the one entry.
SetDataClearing(this, key, value) ==
    [this EXCEPT !.scenarioData = MapSet(EmptyMap, key, value)]

\* setData: `this` after the call.
SetData(this, key, value) == [this EXCEPT !.scenarioData = MapSet(@, key, value)]

\* getData that throws for a key the map does not hold.
GetDataStrict(this, key) ==
    IF MapHas(this.scenarioData, key) THEN Returned(this.scenarioData[key])
    ELSE Threw("No data for key")

\* getData that checks this.page the way getPage does.
GetDataGuarded(this, key) ==
    IF this.page = Undefined THEN Threw(PageNotInitialized)
    ELSE Returned(MapGet(this.scenarioData, key))

\* getData: what the call does; it reads the map and nothing else.
GetData(this, key) == Returned(MapGet(this.scenarioData, key))

\* The record of a call kept in lastCall: the World, the method, its argument,
\* whether the Map already held the key, and what the call did.
Call(w, op, arg, cached, outcome) ==
    [world |-> w, op |-> op, arg |-> arg, cached |-> cached, outcome |-> outcome]
NoCall == [world |-> 0, op |-> "none", arg |-> Undefined, cached |-> FALSE,
           outcome |-> Returned(Undefined)]

\* A history after a call: a returned object is added to the World's entries.
Remember(history, w, op, cls, outcome) ==
    IF outcome.threw THEN history
    ELSE [history EXCEPT ![w] = @ \cup {<<op, cls, outcome.value>>}]

\* A World exists from its construction on.
Constructed(w) == phase[w] # "none"

\* Every collaborator object that exists in World w: the objects its two
\* registries hold and the page objects those objects have built.
Instances(w) ==
    LET held == MapValues(pageRegistry[w]) \cup MapValues(orchestratorRegistry[w])
    IN  held \cup UNION {o.parts : o \in held}

\* Maps that are shared by all Worlds (static fields): every World gets the
\* Maps of `this`.
StoreShared(w, this) ==
    /\ pageRegistry' = [v \in Worlds |-> this.pageRegistry]
    /\ orchestratorRegistry' = [v \in Worlds |-> this.orchestratorRegistry]
    /\ scenarioData' = [v \in Worlds |-> this.scenarioData]
    /\ UNCHANGED <<context, page>>

\* The fields of World w become those of `this`.
Store(w, this) ==
    /\ pageRegistry' = [pageRegistry EXCEPT ![w] = this.pageRegistry]
    /\ orchestratorRegistry' = [orchestratorRegistry EXCEPT ![w] = this.orchestratorRegistry]
    /\ scenarioData' = [scenarioData EXCEPT ![w] = this.scenarioData]
    /\ UNCHANGED <<context, page>>

\* ------------------------------------------ World methods called on World w

getPage(w, pageClass) ==
    /\ Constructed(w)
    /\ LET r == GetPage(This(w), pageClass)
       IN  /\ Store(w, r.this)
           /\ lastCall' = Call(w, "getPage", pageClass, r.cached, r.outcome)
           /\ returned' = Remember(returned, w, "getPage", pageClass, r.outcome)
    /\ UNCHANGED <<written, flow, runnerVars, moduleVars, browserVars, processVars>>

getOrchestrator(w, orchestratorClass) ==
    /\ Constructed(w)
    /\ LET r == GetOrchestrator(This(w), orchestratorClass)
       IN  /\ Store(w, r.this)
           /\ lastCall' = Call(w, "getOrchestrator", orchestratorClass, r.cached, r.outcome)
           /\ returned' = Remember(returned, w, "getOrchestrator", orchestratorClass,
                                   r.outcome)
    /\ UNCHANGED <<written, flow, runnerVars, moduleVars, browserVars, processVars>>

\* The lastCall record of a setData call made on `this`.
SetDataCall(this, key, value) ==
    Call(this.id, "setData",
         [key |-> key, value |-> value, replaced |-> MapGet(this.scenarioData, key)],
         MapHas(this.scenarioData, key), Returned(Undefined))

setData(w, key, value) ==
    /\ Constructed(w)
    /\ Store(w, SetData(This(w), key, value))
    /\ lastCall' = SetDataCall(This(w), key, value)
    /\ written' = [written EXCEPT ![w] = MapSet(@, key, value)]
    /\ UNCHANGED <<returned, flow, runnerVars, moduleVars, browserVars, processVars>>

getData(w, key) ==
    /\ Constructed(w)
    /\ lastCall' = Call(w, "getData", [key |-> key], FALSE, GetData(This(w), key))
    /\ UNCHANGED <<worldVars, returned, written, flow, runnerVars, moduleVars,
                    browserVars, processVars>>

\* -------------------------------------------- orchestrators and page objects

\* The awaited calls of a page-object method on its Locator or Page, in order.
\* This variant of the table acts on the element before it waits for it.
PageObjectCallsActFirst(method) ==
    CASE method = "goto" -> <<"page.goto">>
      [] method = "hoverOnIndustries" -> <<"hover", "waitFor", "page.waitForTimeout">>
      [] method = "openSection" ->
            <<"click", "waitFor", "page.waitForLoadState", "page.waitForTimeout">>
      [] method = "scrollToSection" -> <<"scrollIntoViewIfNeeded", "waitFor">>
      [] method = "hoverAndCopyTextFromTile" -> <<"hover", "waitFor", "textContent">>
      [] method = "scrollToBottom" -> <<"page.evaluate">>
      [] method = "clickButton" ->
            <<"scrollIntoViewIfNeeded", "waitFor", "click", "page.waitForLoadState">>
      [] method = "getCurrentUrl" -> <<"page.url">>
      [] method = "getPageTitle" -> <<"page.title">>
      [] method = "waitForPageReady" -> <<"page.waitForLoadState">>

\* The awaited calls of a method of a page object (BasePage, HomePage,
\* RetirementPage) or of BaseOrchestrator on its Locator or Page, in order.
PageObjectCalls(method) ==
    CASE method = "goto" -> <<"page.goto">>
      [] method = "hoverOnIndustries" -> <<"waitFor", "hover", "page.waitForTimeout">>
      [] method = "openSection" ->
            <<"waitFor", "click", "page.waitForLoadState", "page.waitForTimeout">>
      [] method = "scrollToSection" -> <<"waitFor", "scrollIntoViewIfNeeded">>
      [] method = "hoverAndCopyTextFromTile" -> <<"waitFor", "hover", "textContent">>
      [] method = "scrollToBottom" -> <<"page.evaluate">>
      [] method = "clickButton" ->
            <<"waitFor", "scrollIntoViewIfNeeded", "click", "page.waitForLoadState">>
      [] method = "getCurrentUrl" -> <<"page.url">>
      [] method = "getPageTitle" -> <<"page.title">>
      [] method = "waitForPageReady" -> <<"page.waitForLoadState">>

\* The page-object methods that act on an element, and the calls that act.
ElementMethods ==
    {"hoverOnIndustries", "openSection", "scrollToSection", "hoverAndCopyTextFromTile",
     "clickButton"}
ElementActions == {"hover", "click", "scrollIntoViewIfNeeded", "textContent"}

\* The public operations of the two orchestrators.
Operations(cls) ==
    IF cls = NavigationOrchestrator
    THEN {"navigateToApp", "hoverOnIndustriesMenu", "openIndustrySection",
          "navigateToIndustrySection", "scrollToSection", "scrollToBottom",
          "clickNavigationButton", "navigateToIndustrySectionArea"}
    ELSE IF cls = ContentOrchestrator
    THEN {"getTileContent", "getPageInfo", "verifyPageNavigation"}
    ELSE {}

\* The texts the feature file passes to the operations, and the number of
\* parameters of each operation.
Texts == {"Retirement and Wealth", "Powering innovation in retirement services"}
Arity(op) ==
    IF op \in {"hoverOnIndustriesMenu", "scrollToBottom", "getPageInfo"} THEN 0
    ELSE IF op = "navigateToIndustrySectionArea" THEN 2
    ELSE 1
Arguments(op) == [1..Arity(op) -> Texts]

\* A method call an operation awaits: `on` is the field holding the receiver
\* ("this" for a BaseOrchestrator method), `args` the arguments passed.
MethodCall(on, method, args) == [on |-> on, method |-> method, args |-> args]

\* The operations of NavigationOrchestrator that other operations call, each
\* as the method calls it awaits, in order.
HoverOnIndustriesMenu == <<MethodCall("homePage", "hoverOnIndustries", <<>>)>>
OpenIndustrySection(sectionName) ==
    <<MethodCall("homePage", "openSection", <<sectionName>>)>>
NavigateToIndustrySection(sectionName) ==
    HoverOnIndustriesMenu \o OpenIndustrySection(sectionName)
ScrollToSection(sectionHeading) ==
    <<MethodCall("retirementPage", "scrollToSection", <<sectionHeading>>)>>

\* A navigateToIndustrySectionArea that leaves out the menu when the area is
\* named like the section.
NavigateToIndustrySectionAreaBranching(sectionName, areaHeading) ==
    IF sectionName = areaHeading
    THEN ScrollToSection(areaHeading)
    ELSE NavigateToIndustrySection(sectionName) \o ScrollToSection(areaHeading)

\* navigateToIndustrySectionArea: navigateToIndustrySection, then
\* scrollToSection.
NavigateToIndustrySectionArea(sectionName, areaHeading) ==
    NavigateToIndustrySection(sectionName) \o ScrollToSection(areaHeading)

\* getPageInfo of ContentOrchestrator.
GetPageInfo ==
    <<MethodCall("this", "getCurrentUrl", <<>>), MethodCall("this", "getPageTitle", <<>>)>>

\* The method calls operation `op` awaits when called with `args`, in order.
OrchestratorCalls(op, args) ==
    CASE op = "navigateToApp" -> <<MethodCall("homePage", "goto", <<args[1]>>)>>
      [] op = "hoverOnIndustriesMenu" -> HoverOnIndustriesMenu
      [] op = "openIndustrySection" -> OpenIndustrySection(args[1])
      [] op = "navigateToIndustrySection" -> NavigateToIndustrySection(args[1])
      [] op = "scrollToSection" -> ScrollToSection(args[1])
      [] op = "scrollToBottom" ->
            <<MethodCall("retirementPage", "scrollToBottom", <<>>)>>
      [] op = "clickNavigationButton" ->
            <<MethodCall("retirementPage", "clickButton", <<args[1]>>),
              MethodCall("this", "waitForPageReady", <<>>)>>
      [] op = "navigateToIndustrySectionArea" ->
            NavigateToIndustrySectionArea(args[1], args[2])
      [] op = "getTileContent" ->
            <<MethodCall("retirementPage", "hoverAndCopyTextFromTile", <<args[1]>>)>>
      [] op = "getPageInfo" -> GetPageInfo
      [] op = "verifyPageNavigation" -> GetPageInfo

\* A field read that builds a new page object instead.
CollaboratorFresh(orchestrator, on) ==
    IF on = "this" THEN orchestrator
    ELSE PageObject(IF on = "homePage" THEN HomePage ELSE RetirementPage,
                    orchestrator.page, Append(Append(orchestrator.oid, on), "again"))

\* `this.homePage`, `this.retirementPage`: the page object the constructor
\* stored in that field; `this` is the orchestrator itself.
Collaborator(orchestrator, on) ==
    IF on = "this" THEN orchestrator
    ELSE CHOOSE part \in orchestrator.parts : part.oid[Len(part.oid)] = on

\* Every awaited Locator/Page call of an operation, in order: `seq` numbers
\* the method call it belongs to, `target` is the receiver of that method.
Primitives(orchestrator, op, args) ==
    LET calls == OrchestratorCalls(op, args)
        RECURSIVE from(_)
        from(i) ==
            IF i > Len(calls) THEN <<>>
            ELSE LET prims == PageObjectCalls(calls[i].method)
                 IN  [j \in DOMAIN prims |->
                         [seq |-> i, on |-> calls[i].on, method |-> calls[i].method,
                          args |-> calls[i].args,
                          target |-> Collaborator(orchestrator, calls[i].on),
                          primitive |-> prims[j]]]
                     \o from(i + 1)
    IN  from(1)

\* page.url() is synchronous and returns the URL; every other call is a
\* promise that may reject.
CanReject(call) == call.primitive # "page.url"

\* The error a rejected call throws: a timeout of the wait, or a failure of
\* the browser engine.
ErrorOf(call) ==
    [type |-> "Error",
     name |-> IF call.primitive = "waitFor" THEN "TimeoutError" ELSE "Error",
     from |-> call]

\* Awaiting that catches a rejection and goes on with the next call.
RECURSIVE AwaitAllSuppressing(_, _, _)
AwaitAllSuppressing(calls, n, log) ==
    LET i == Len(log) + 1
    IN  IF i > Len(calls) THEN [log |-> log, outcome |-> Returned(Undefined)]
        ELSE AwaitAllSuppressing(calls, n,
                 Append(log, <<calls[i], IF i = n THEN "rejected" ELSE "resolved">>))

\* `await` of each call in turn when the call at position n rejects (n beyond
\* the last call: none does): a rejection is thrown on at once, so the
\* operation ends there with that error.
RECURSIVE AwaitAll(_, _, _)
AwaitAll(calls, n, log) ==
    LET i == Len(log) + 1
    IN  IF i > Len(calls) THEN [log |-> log, outcome |-> Returned(Undefined)]
        ELSE IF i = n
        THEN [log |-> Append(log, <<calls[i], "rejected">>),
              outcome |-> Threw(ErrorOf(calls[i]))]
        ELSE AwaitAll(calls, n, Append(log, <<calls[i], "resolved">>))

\* The record of an orchestrator operation kept in `flow`.
NoFlow == [world |-> 0, orchestrator |-> Undefined, op |-> "none", args |-> <<>>,
           log |-> <<>>, outcome |-> Returned(Undefined)]

\* A caller invokes operation `op` with `args` on the orchestrator that World
\* w holds for class cls; any one of its awaited calls may reject.
workflow(w, cls, op, args) ==
    /\ MapHas(orchestratorRegistry[w], cls.name)
    /\ op \in Operations(cls)
    /\ args \in Arguments(op)
    /\ LET orchestrator == orchestratorRegistry[w][cls.name]
           calls == Primitives(orchestrator, op, args)
       IN  \E n \in 1..(Len(calls) + 1) :
              /\ n <= Len(calls) => CanReject(calls[n])
              /\ LET run == AwaitAll(calls, n, <<>>)
                 IN  flow' = [world |-> w, orchestrator |-> orchestrator, op |-> op,
                              args |-> args, log |-> run.log, outcome |-> run.outcome]
    /\ UNCHANGED <<worldVars, runnerVars, moduleVars, browserVars, processVars>>
    /\ UNCHANGED <<lastCall, returned, written>>

\* ------------------------------------------------------------------- hooks

\* The value of an environment variable that is not set.
Unset == "<unset>"

\* run.js runTests: spawn the test process; --headed sets HEADLESS to 'false'
\* in its environment, which is otherwise the environment of run.js.
RunTests ==
    /\ testProcess = "none"
    /\ env' = IF options.headed THEN [env EXCEPT !.HEADLESS = "false"] ELSE env
    /\ testProcess' = "spawned"
    /\ UNCHANGED <<options, launch>>
    /\ UNCHANGED <<worldVars, runnerVars, moduleVars, browserVars, observerVars>>

\* The options BeforeAll passes to chromium.launch in environment e.
LaunchOptions(e) ==
    LET isHeadless == e.HEADLESS = "true" \/ e.CI = "true"
        slowMo == IF isHeadless THEN 0 ELSE 500
    IN  [headless |-> isHeadless, slowMo |-> slowMo]

\* BeforeAll: launch the browser of worker k; chromium.launch may reject.
BeforeAll(k) ==
    /\ testProcess = "spawned"
    /\ browser[k] = "undefined"
    /\ \E w \in Worlds : worker[w] = k
    /\ launch' = [launch EXCEPT ![k] = LaunchOptions(env)]
    /\ \E launched \in BOOLEAN :
          browser' = [browser EXCEPT ![k] = IF launched THEN "open" ELSE "launchFailed"]
    /\ UNCHANGED <<phase, result, worker, stepIdx, options, env, testProcess>>
    /\ UNCHANGED <<worldVars, moduleVars, browserVars, observerVars>>

\* A constructor that reuses the Maps of the World constructed before it.
WorldConstructorShared(w) ==
    IF w > 1
    THEN [This(w - 1) EXCEPT !.id = w, !.page = Undefined]
    ELSE [id |-> w, page |-> Undefined, pageRegistry |-> EmptyMap,
          orchestratorRegistry |-> EmptyMap, scenarioData |-> EmptyMap]

\* A constructor that inherits the Maps of the World that ran before it in the
\* same worker.
WorldConstructorInherited(w) ==
    IF \E v \in Worlds : v < w /\ worker[v] = worker[w]
    THEN LET v == CHOOSE v \in Worlds : v < w /\ worker[v] = worker[w]
         IN  [This(v) EXCEPT !.id = w, !.page = Undefined]
    ELSE [id |-> w, page |-> Undefined, pageRegistry |-> EmptyMap,
          orchestratorRegistry |-> EmptyMap, scenarioData |-> EmptyMap]

\* The fields the World constructor initialises.
WorldConstructor(w) ==
    [id |-> w, page |-> Undefined, pageRegistry |-> EmptyMap,
     orchestratorRegistry |-> EmptyMap, scenarioData |-> EmptyMap]

\* The runner constructs the World of the next scenario of a worker once the
\* worker's browser is launched and its earlier scenarios have ended.
NewWorld(w) ==
    /\ phase[w] = "none"
    /\ browser[worker[w]] = "open"
    /\ \A v \in Worlds : (v < w /\ worker[v] = worker[w]) => phase[v] = "ended"
    /\ Store(w, WorldConstructor(w))
    /\ phase' = [phase EXCEPT ![w] = "created"]
    /\ UNCHANGED <<result, worker, browser, stepIdx>>
    /\ UNCHANGED <<moduleVars, browserVars, observerVars, processVars>>

\* The awaited calls of the Before hook, in order; "none" is no failure.
BeforeCalls == <<"newContext", "tracing.start", "newPage", "addInitScript">>
BeforeFailures == {BeforeCalls[i] : i \in DOMAIN BeforeCalls} \cup {"none"}

\* TRUE when the call at position i of `calls` was completed: the hook got
\* past it, because the call that rejects (if any) comes later.
Completed(calls, failure, i) ==
    \A j \in 1..i : calls[j] # failure

\* --fail-fast: the runner skips a test case it starts after a scenario has
\* failed.  A worker starts its scenarios one after another, so the failed
\* scenario is an earlier one of the same worker.
Skipping(w) ==
    /\ options.debug
    /\ \E v \in Worlds :
          v < w /\ worker[v] = worker[w] /\ phase[v] = "ended" /\ result[v] = "FAILED"

\* Before: create the context, start tracing, create the page, add the init
\* script.  A call that rejects ends the hook there and fails the scenario.
Before(w) ==
    /\ phase[w] = "created"
    /\ ~Skipping(w)
    /\ \E failure \in BeforeFailures :
          LET done(i) == Completed(BeforeCalls, failure, i)
          IN  /\ context' = [context EXCEPT ![w] = IF done(1) THEN ContextOf(w) ELSE @]
              /\ page' = [page EXCEPT ![w] = IF done(3) THEN PageOf(w) ELSE @]
              /\ engine' = [engine EXCEPT ![w] =
                               [context |-> IF done(1) THEN "open" ELSE "none",
                                tracing |-> IF done(2) THEN "on" ELSE "off",
                                page |-> IF done(3) THEN "open" ELSE "none"]]
              /\ result' = [result EXCEPT ![w] =
                               IF failure = "none" THEN "PASSED" ELSE "FAILED"]
    /\ phase' = [phase EXCEPT ![w] = "steps"]
    /\ UNCHANGED <<pageRegistry, orchestratorRegistry, scenarioData>>
    /\ UNCHANGED <<worker, browser, stepIdx, artifacts, hookLog>>
    /\ UNCHANGED <<moduleVars, observerVars, processVars>>

\* ------------------------------------------------------------------- steps

\* The pickles of the feature file: the Background steps, then the steps of
\* the scenario.
Background == <<"navigate", "hoverIndustries", "openSection", "scrollToSection">>
Pickle(w) ==
    Background \o
    (IF w = 1 THEN <<"copyTile", "validateCopied">>
     ELSE <<"scrollBottom", "clickButton", "verifyUrl", "verifyTitle", "printTitle">>)

\* A BeforeStep that destructures the two orchestrators in the wrong order.
BeforeStepSwapped(this) ==
    LET con == GetOrchestrator(this, ContentOrchestrator)
        nav == IF con.outcome.threw THEN con
               ELSE GetOrchestrator(con.this, NavigationOrchestrator)
    IN  [this |-> nav.this,
         threw |-> nav.outcome.threw,
         calls |-> IF con.outcome.threw
                   THEN <<Call(this.id, "getOrchestrator", ContentOrchestrator,
                               con.cached, con.outcome)>>
                   ELSE <<Call(this.id, "getOrchestrator", ContentOrchestrator,
                               con.cached, con.outcome),
                          Call(this.id, "getOrchestrator", NavigationOrchestrator,
                               nav.cached, nav.outcome)>>]

\* A BeforeStep that assigns the module variables only while they are unset.
BeforeStepLazy(this) ==
    LET k == worker[this.id]
        nav == GetOrchestrator(this, NavigationOrchestrator)
        con == IF nav.outcome.threw THEN nav
               ELSE GetOrchestrator(nav.this, ContentOrchestrator)
    IN  IF navigation_domain[k] # Undefined /\ content_domain[k] # Undefined
        THEN [this |-> this,
              threw |-> FALSE,
              calls |-> <<Call(this.id, "getOrchestrator", NavigationOrchestrator,
                               TRUE, Returned(navigation_domain[k])),
                          Call(this.id, "getOrchestrator", ContentOrchestrator,
                               TRUE, Returned(content_domain[k]))>>]
        ELSE [this |-> con.this,
              threw |-> con.outcome.threw,
              calls |-> IF nav.outcome.threw
                        THEN <<Call(this.id, "getOrchestrator", NavigationOrchestrator,
                                    nav.cached, nav.outcome)>>
                        ELSE <<Call(this.id, "getOrchestrator", NavigationOrchestrator,
                                    nav.cached, nav.outcome),
                               Call(this.id, "getOrchestrator", ContentOrchestrator,
                                    con.cached, con.outcome)>>]

\* BeforeStep: both getOrchestrator calls, left to right; the module variables
\* are assigned only when neither call throws.
BeforeStep(this) ==
    LET nav == GetOrchestrator(this, NavigationOrchestrator)
        con == IF nav.outcome.threw THEN nav
               ELSE GetOrchestrator(nav.this, ContentOrchestrator)
    IN  [this |-> con.this,
         threw |-> con.outcome.threw,
         calls |-> IF nav.outcome.threw
                   THEN <<Call(this.id, "getOrchestrator", NavigationOrchestrator,
                               nav.cached, nav.outcome)>>
                   ELSE <<Call(this.id, "getOrchestrator", NavigationOrchestrator,
                               nav.cached, nav.outcome),
                          Call(this.id, "getOrchestrator", ContentOrchestrator,
                               con.cached, con.outcome)>>]

\* The body of a step definition run on `this`.  `ok` says whether the
\* orchestrator call of the step resolved (it rejects on a failed wait, a
\* timeout or a browser failure) and, for verifyUrl, whether the URL matched;
\* `text` is the text the step read from the page.  The result is `this`
\* after the step, whether the step failed, and the World methods it called.
StepBody(this, name, ok, text) ==
    CASE name = "copyTile" ->
            IF ok THEN [this |-> SetData(this, "copiedText", text), failed |-> FALSE,
                        calls |-> <<SetDataCall(this, "copiedText", text)>>]
            ELSE [this |-> this, failed |-> TRUE, calls |-> <<>>]
      [] name = "validateCopied" ->
            [this |-> this,
             failed |-> GetData(this, "copiedText") # Returned(TileDescription),
             calls |-> <<Call(this.id, "getData", [key |-> "copiedText"], FALSE,
                              GetData(this, "copiedText"))>>]
      [] name = "verifyTitle" ->
            IF ok THEN [this |-> SetData(this, "pageTitle", text),
                        failed |-> text # ContactTitle,
                        calls |-> <<SetDataCall(this, "pageTitle", text)>>]
            ELSE [this |-> this, failed |-> TRUE, calls |-> <<>>]
      [] name = "printTitle" ->
            [this |-> this, failed |-> FALSE,
             calls |-> <<Call(this.id, "getData", [key |-> "pageTitle"], FALSE,
                              GetData(this, "pageTitle"))>>]
      [] OTHER -> [this |-> this, failed |-> ~ok, calls |-> <<>>]

\* The histories after the World method calls of a hook or a step.
RECURSIVE RememberAll(_, _)
RememberAll(history, calls) ==
    IF calls = <<>> THEN history
    ELSE LET c == Head(calls)
         IN  RememberAll(IF c.op \in {"getPage", "getOrchestrator"}
                         THEN Remember(history, c.world, c.op, c.arg, c.outcome)
                         ELSE history,
                         Tail(calls))

RECURSIVE WriteAll(_, _)
WriteAll(history, calls) ==
    IF calls = <<>> THEN history
    ELSE LET c == Head(calls)
         IN  WriteAll(IF c.op = "setData"
                      THEN [history EXCEPT ![c.world] = MapSet(@, c.arg.key, c.arg.value)]
                      ELSE history,
                      Tail(calls))

\* The runner handles the next pickle step of World w: it skips the step once
\* the scenario has failed, and otherwise runs BeforeStep and then the body.
Step(w) ==
    /\ phase[w] = "steps"
    /\ stepIdx[w] < Len(Pickle(w))
    /\ stepIdx' = [stepIdx EXCEPT ![w] = @ + 1]
    /\ IF result[w] = "FAILED"
       THEN UNCHANGED <<worldVars, result, moduleVars, observerVars>>
       ELSE \E ok \in BOOLEAN, text \in DataValues :
              LET hook == BeforeStep(This(w))
                  body == IF hook.threw
                          THEN [this |-> hook.this, failed |-> TRUE, calls |-> <<>>]
                          ELSE StepBody(hook.this, Pickle(w)[stepIdx[w] + 1], ok, text)
                  calls == hook.calls \o body.calls
              IN  /\ Store(w, body.this)
                  /\ result' = [result EXCEPT ![w] = IF body.failed THEN "FAILED" ELSE @]
                  /\ navigation_domain' =
                        IF hook.threw THEN navigation_domain
                        ELSE [navigation_domain EXCEPT ![worker[w]] =
                                 hook.calls[1].outcome.value]
                  /\ content_domain' =
                        IF hook.threw THEN content_domain
                        ELSE [content_domain EXCEPT ![worker[w]] =
                                 hook.calls[2].outcome.value]
                  /\ lastCall' = calls[Len(calls)]
                  /\ returned' = RememberAll(returned, calls)
                  /\ written' = WriteAll(written, calls)
    /\ UNCHANGED <<phase, worker, browser, browserVars, flow, processVars>>

\* A skipped test case: the runner runs none of its hooks and steps and gives
\* it the status SKIPPED.
SkipTestCase(w) ==
    /\ phase[w] = "created"
    /\ Skipping(w)
    /\ phase' = [phase EXCEPT ![w] = "ended"]
    /\ result' = [result EXCEPT ![w] = "SKIPPED"]
    /\ stepIdx' = [stepIdx EXCEPT ![w] = Len(Pickle(w))]
    /\ UNCHANGED <<worker, browser>>
    /\ UNCHANGED <<worldVars, moduleVars, browserVars, observerVars, processVars>>

\* -------------------------------------------------------------- After hook

\* The result statuses the runner can hand to the After hook.
Status == {"UNKNOWN", "PASSED", "SKIPPED", "PENDING", "UNDEFINED", "AMBIGUOUS", "FAILED"}

\* A screenshot call that ignores the result status.
ScreenshotAlways(status, pg) ==
    IF pg # Undefined THEN <<"screenshot">> ELSE <<>>

\* The screenshot call of the After hook: made when the status is FAILED, and
\* only when this.page is set (`this.page?.screenshot`).
Screenshot(status, pg) ==
    IF status = "FAILED" /\ pg # Undefined THEN <<"screenshot">> ELSE <<>>

\* An After hook that closes the page before it stops the trace.
AfterCallsCloseFirst(w) ==
    <<"mkdir">>
    \o Screenshot(result[w], page[w])
    \o (IF page[w] # Undefined THEN <<"page.close">> ELSE <<>>)
    \o (IF context[w] # Undefined THEN <<"tracing.stop">> ELSE <<>>)
    \o (IF context[w] # Undefined THEN <<"context.close">> ELSE <<>>)

\* The calls of the After hook that can reject, in the order the hook makes
\* them for World w: the directory creation; the screenshot, when the result
\* is FAILED and this.page is set; tracing.stop, when this.context is set;
\* page.close, when this.page is set; context.close, when this.context is set.
AfterCalls(w) ==
    <<"mkdir">>
    \o Screenshot(result[w], page[w])
    \o (IF context[w] # Undefined THEN <<"tracing.stop">> ELSE <<>>)
    \o (IF page[w] # Undefined THEN <<"page.close">> ELSE <<>>)
    \o (IF context[w] # Undefined THEN <<"context.close">> ELSE <<>>)

\* The calls the hook makes when the call at position n rejects (n beyond the
\* last call: none rejects): those before it resolve, it rejects, and the
\* hook ends there.
AfterLog(calls, n) ==
    [i \in 1..(IF n <= Len(calls) THEN n ELSE Len(calls)) |->
        <<calls[i], IF i = n THEN "rejected" ELSE "resolved">>]

\* TRUE when the hook made call `name` and it had the given end.
Logged(log, name, end) == \E i \in DOMAIN log : log[i] = <<name, end>>
Called(log, name) == Logged(log, name, "resolved") \/ Logged(log, name, "rejected")

\* tracing.stop rejects when tracing was never started on the context.
MustReject(w, name) == name = "tracing.stop" /\ engine[w].tracing # "on"

\* After: runs when every step of the pickle was run or skipped.
After(w) ==
    /\ phase[w] = "steps"
    /\ stepIdx[w] = Len(Pickle(w))
    /\ LET calls == AfterCalls(w)
       IN  \E n \in 1..(Len(calls) + 1) :
              /\ \A i \in 1..Len(calls) : i < n => ~MustReject(w, calls[i])
              /\ LET log == AfterLog(calls, n)
                     shot == Logged(log, "screenshot", "resolved")
                     trace == Logged(log, "tracing.stop", "resolved")
                 IN  /\ hookLog' = [hookLog EXCEPT ![w] = log]
                     /\ artifacts' = [artifacts EXCEPT ![w] =
                           [screenshots |-> @.screenshots + (IF shot THEN 1 ELSE 0),
                            traces |-> @.traces + (IF trace THEN 1 ELSE 0),
                            attached |-> @.attached
                                         \cup (IF shot THEN {"image/png"} ELSE {})
                                         \cup (IF trace THEN {"application/zip"} ELSE {})]]
                     /\ engine' = [engine EXCEPT ![w] =
                           [context |-> IF Logged(log, "context.close", "resolved")
                                        THEN "closed" ELSE @.context,
                            tracing |-> IF trace THEN "stopped" ELSE @.tracing,
                            page |-> IF Logged(log, "page.close", "resolved")
                                     THEN "closed" ELSE @.page]]
                     /\ result' = [result EXCEPT ![w] =
                           IF n <= Len(calls) THEN "FAILED" ELSE @]
    /\ phase' = [phase EXCEPT ![w] = "ended"]
    /\ UNCHANGED <<worldVars, worker, browser, stepIdx, moduleVars, observerVars,
                    processVars>>

\* An AfterAll that does not wait for the scenarios of the worker.
AfterAllEager(k) ==
    /\ browser[k] = "open"
    /\ browser' = [browser EXCEPT ![k] = "closed"]
    /\ UNCHANGED <<phase, result, worker, stepIdx>>
    /\ UNCHANGED <<worldVars, moduleVars, browserVars, observerVars, processVars>>

\* AfterAll: close the browser of worker k once all its scenarios have ended.
AfterAll(k) ==
    /\ browser[k] = "open"
    /\ \A w \in Worlds : worker[w] = k => phase[w] = "ended"
    /\ browser' = [browser EXCEPT ![k] = "closed"]
    /\ UNCHANGED <<phase, result, worker, stepIdx>>
    /\ UNCHANGED <<worldVars, moduleVars, browserVars, observerVars, processVars>>

\* ------------------------------------------------------------ specifications

InitCommon ==
    /\ phase = [w \in Worlds |-> "none"]
    /\ result = [w \in Worlds |-> "UNKNOWN"]
    /\ browser = [k \in Workers |-> "undefined"]
    /\ context = [w \in Worlds |-> Undefined]
    /\ page = [w \in Worlds |-> Undefined]
    /\ pageRegistry = [w \in Worlds |-> EmptyMap]
    /\ orchestratorRegistry = [w \in Worlds |-> EmptyMap]
    /\ scenarioData = [w \in Worlds |-> EmptyMap]
    /\ engine = [w \in Worlds |-> [context |-> "none", tracing |-> "off", page |-> "none"]]
    /\ artifacts = [w \in Worlds |-> [screenshots |-> 0, traces |-> 0, attached |-> {}]]
    /\ hookLog = [w \in Worlds |-> <<>>]
    /\ navigation_domain = [k \in Workers |-> Undefined]
    /\ content_domain = [k \in Workers |-> Undefined]
    /\ stepIdx = [w \in Worlds |-> 0]
    /\ lastCall = NoCall
    /\ returned = [w \in Worlds |-> {}]
    /\ written = [w \in Worlds |-> EmptyMap]
    /\ flow = NoFlow

\* The worker of each scenario: one worker takes them all in serial mode, and
\* the scenarios are dealt out to the workers in parallel mode.
Assignment(parallel) ==
    [w \in Worlds |-> IF parallel THEN ((w - 1) % NumWorkers) + 1 ELSE 1]

\* The test process is running (`npm test`, `npm run test:parallel`) in an
\* environment that sets none of the variables.
InitSpawned(parallel) ==
    /\ worker = Assignment(parallel)
    /\ options = [parallel |-> parallel, headed |-> FALSE, debug |-> FALSE]
    /\ env = [HEADLESS |-> Unset, CI |-> Unset, SLOWMO |-> Unset]
    /\ testProcess = "spawned"
    /\ launch = [k \in Workers |-> Undefined]

\* Parallel mode: each of the two scenarios runs in a worker of its own, and a
\* harness calls the methods of the two Worlds in any order.
Init ==
    /\ InitCommon
    /\ InitSpawned(TRUE)

Next ==
    \/ \E k \in Workers : BeforeAll(k)
    \/ \E w \in Worlds : NewWorld(w)
    \/ \E w \in Worlds : Before(w)
    \/ \E w \in Worlds, c \in PageClasses : getPage(w, c)
    \/ \E w \in Worlds, c \in OrchestratorClasses : getOrchestrator(w, c)
    \/ \E w \in Worlds : setData(w, "copiedText", TileDescription)
    \/ \E w \in Worlds : getData(w, "copiedText")

Spec == Init /\ [][Next]_vars

\* The same harness over the scenario data alone, with every key and value.
NextData ==
    \/ \E k \in Workers : BeforeAll(k)
    \/ \E w \in Worlds : NewWorld(w)
    \/ \E w \in Worlds : Before(w)
    \/ \E w \in Worlds, key \in DataKeys, v \in DataValues : setData(w, key, v)
    \/ \E w \in Worlds, key \in DataKeys : getData(w, key)

SpecData == Init /\ [][NextData]_vars

\* One worker, whose first scenario is set up; a caller requests orchestrators
\* and invokes their operations.
InitFlow ==
    /\ InitCommon
    /\ InitSpawned(FALSE)

NextFlow ==
    \/ \E k \in Workers : BeforeAll(k)
    \/ \E w \in Worlds : NewWorld(w)
    \/ \E w \in Worlds : Before(w)
    \/ \E w \in Worlds, c \in OrchestratorClasses : getOrchestrator(w, c)
    \/ \E w \in Worlds, c \in OrchestratorClasses :
          \E op \in Operations(c) : \E args \in Arguments(op) : workflow(w, c, op, args)

SpecFlow == InitFlow /\ [][NextFlow]_vars

\* One World, set up by its Before hook; a caller calls its four methods in
\* any order, before and after the setup, with every class, key and value.
NextWorld ==
    \/ \E k \in Workers : BeforeAll(k)
    \/ \E w \in Worlds : NewWorld(w)
    \/ \E w \in Worlds : Before(w)
    \/ \E w \in Worlds, c \in PageClasses : getPage(w, c)
    \/ \E w \in Worlds, c \in OrchestratorClasses : getOrchestrator(w, c)
    \/ \E w \in Worlds, key \in DataKeys, v \in DataValues : setData(w, key, v)
    \/ \E w \in Worlds, key \in DataKeys : getData(w, key)

SpecWorld == InitFlow /\ [][NextWorld]_vars

\* One World whose two get methods are called with the same classes.
NextNamespaces ==
    \/ \E k \in Workers : BeforeAll(k)
    \/ \E w \in Worlds : NewWorld(w)
    \/ \E w \in Worlds : Before(w)
    \/ \E w \in Worlds, c \in SharedClasses \cup PageClasses : getPage(w, c)
    \/ \E w \in Worlds, c \in SharedClasses \cup OrchestratorClasses : getOrchestrator(w, c)

SpecNamespaces == InitFlow /\ [][NextNamespaces]_vars

\* `this.page = p` on World w: the field is public and optional, so a hook or
\* step can set it to another handle of the World's context or to undefined.
assignPage(w, p) ==
    /\ Constructed(w)
    /\ p # page[w]
    /\ p # Undefined => context[w] # Undefined
    /\ page' = [page EXCEPT ![w] = p]
    /\ UNCHANGED <<context, pageRegistry, orchestratorRegistry, scenarioData>>
    /\ UNCHANGED <<runnerVars, moduleVars, browserVars, observerVars, processVars>>

\* `await this.page?.close()` on the handle the Before hook created.
closePage(w) ==
    /\ page[w] = PageOf(w)
    /\ engine[w].page = "open"
    /\ engine' = [engine EXCEPT ![w].page = "closed"]
    /\ UNCHANGED <<artifacts, hookLog>>
    /\ UNCHANGED <<worldVars, runnerVars, moduleVars, observerVars, processVars>>

\* One World whose Page handle is reassigned, cleared or closed between the
\* calls of its get methods.
NextHandle ==
    \/ \E k \in Workers : BeforeAll(k)
    \/ \E w \in Worlds : NewWorld(w)
    \/ \E w \in Worlds : Before(w)
    \/ \E w \in Worlds, c \in PageClasses : getPage(w, c)
    \/ \E w \in Worlds, c \in OrchestratorClasses : getOrchestrator(w, c)
    \/ \E w \in Worlds :
          \E p \in {Undefined, PageOf(w), SecondPageOf(w)} : assignPage(w, p)
    \/ \E w \in Worlds : closePage(w)

SpecHandle == InitFlow /\ [][NextHandle]_vars

\* The runner: every scenario goes through construction, Before, its steps and
\* After.  In serial mode one worker takes the scenarios one after another; in
\* parallel mode each of the two workers takes one.
InitRun ==
    /\ InitCommon
    /\ \E parallel \in BOOLEAN : InitSpawned(parallel)

NextRun ==
    \/ \E k \in Workers : BeforeAll(k)
    \/ \E w \in Worlds : NewWorld(w)
    \/ \E w \in Worlds : Before(w)
    \/ \E w \in Worlds : Step(w)
    \/ \E w \in Worlds : After(w)
    \/ \E k \in Workers : AfterAll(k)

SpecRun == InitRun /\ [][NextRun]_vars

\* The runner with or without --fail-fast (run.js --debug, npm run
\* test:debug), in serial or parallel mode.
InitFailFast ==
    /\ InitCommon
    /\ options \in [parallel : BOOLEAN, headed : {FALSE}, debug : BOOLEAN]
    /\ worker = Assignment(options.parallel)
    /\ env = [HEADLESS |-> Unset, CI |-> Unset, SLOWMO |-> Unset]
    /\ testProcess = "spawned"
    /\ launch = [k \in Workers |-> Undefined]

NextFailFast ==
    \/ NextRun
    \/ \E w \in Worlds : SkipTestCase(w)

SpecFailFast == InitFailFast /\ [][NextFailFast]_vars

\* run.js is started with any options, in any environment; it spawns the test
\* process, whose workers launch their browsers and set up their scenarios.
EnvValues ==
    [HEADLESS : {Unset, "true", "false"}, CI : {Unset, "true"},
     SLOWMO : {Unset, "0", "250"}]

InitLaunch ==
    /\ InitCommon
    /\ options \in [parallel : BOOLEAN, headed : BOOLEAN, debug : {FALSE}]
    /\ env \in EnvValues
    /\ worker = Assignment(options.parallel)
    /\ testProcess = "none"
    /\ launch = [k \in Workers |-> Undefined]

NextLaunch ==
    \/ RunTests
    \/ \E k \in Workers : BeforeAll(k)
    \/ \E w \in Worlds : NewWorld(w)
    \/ \E w \in Worlds : Before(w)

SpecLaunch == InitLaunch /\ [][NextLaunch]_vars

\* ------------------------------------------------------------------ claims

\* C1 (memoization): within one World, any two getPage calls for the same
\* class, and any two getOrchestrator calls for the same class, returned the
\* identical object.
C1_Memoization ==
    \A w \in Worlds : \A x, y \in returned[w] :
        (x[1] = y[1] /\ x[2] = y[2]) => x[3] = y[3]

\* A repeated getPage call has just returned the object of the first call,
\* after an orchestrator was requested and scenario data was stored.
C1_Witness ==
    /\ lastCall.op = "getPage"
    /\ lastCall.cached
    /\ ~lastCall.outcome.threw
    /\ <<"getPage", lastCall.arg, lastCall.outcome.value>> \in returned[lastCall.world]
    /\ DOMAIN orchestratorRegistry[lastCall.world] # {}
    /\ DOMAIN scenarioData[lastCall.world] # {}

\* C3 (isolation): the object returned for a class in one World is never the
\* object returned for that class in another World.
C3_Isolation ==
    \A w1, w2 \in Worlds : w1 # w2 =>
        \A x \in returned[w1], y \in returned[w2] :
            x[2] = y[2] => x[3] # y[3]

\* Both Worlds have returned a HomePage and a NavigationOrchestrator.
C3_Witness ==
    \A w \in Worlds :
        /\ \E x \in returned[w] : x[1] = "getPage" /\ x[2] = HomePage
        /\ \E x \in returned[w] : x[1] = "getOrchestrator" /\ x[2] = NavigationOrchestrator

\* C4: every object returned for class T is an instance of exactly T, built
\* with the World's Page handle, whatever was requested before.
C4_ExactType ==
    \A w \in Worlds : \A x \in returned[w] :
        x[3].cls = x[2] /\ x[3].page = page[w]

\* C5: while this.page is undefined, getPage and getOrchestrator throw
\* 'Page is not initialized' and no object has been returned.
C5_UninitializedFails ==
    /\ \A w \in Worlds : page[w] = Undefined => returned[w] = {}
    /\ (lastCall.op \in {"getPage", "getOrchestrator"} /\ page[lastCall.world] = Undefined)
          => lastCall.outcome = Threw(PageNotInitialized)

\* getOrchestrator has just thrown in a World whose Before hook ended before
\* the page was created.
C5_Witness ==
    /\ lastCall.op = "getOrchestrator"
    /\ lastCall.outcome = Threw(PageNotInitialized)
    /\ phase[lastCall.world] = "steps"
    /\ page[lastCall.world] = Undefined

\* C6 (last write wins): getData(key) returns the value of the most recent
\* setData(key, v) of that World, in every state and in the call just made.
C6_LastWriteWins ==
    /\ \A w \in Worlds : \A key \in DOMAIN written[w] :
          GetData(This(w), key) = Returned(written[w][key])
    /\ (lastCall.op = "getData" /\ MapHas(written[lastCall.world], lastCall.arg.key))
          => lastCall.outcome = Returned(written[lastCall.world][lastCall.arg.key])

\* setData has just replaced a key's value by a different one, while the other
\* key holds a value too.
C6_Witness ==
    /\ lastCall.op = "setData"
    /\ lastCall.cached
    /\ lastCall.arg.replaced # lastCall.arg.value
    /\ DOMAIN scenarioData[lastCall.world] = DataKeys

\* C7: getData for a key never set in that World returns undefined and does
\* not throw.
C7_AbsentIsUndefined ==
    /\ \A w \in Worlds : \A key \in DataKeys \ DOMAIN written[w] :
          Constructed(w) => GetData(This(w), key) = Returned(Undefined)
    /\ (lastCall.op = "getData" /\ ~MapHas(written[lastCall.world], lastCall.arg.key))
          => lastCall.outcome = Returned(Undefined)

\* getData has just returned undefined for a key never set, in a World whose
\* other key is set.
C7_Witness ==
    /\ lastCall.op = "getData"
    /\ ~MapHas(written[lastCall.world], lastCall.arg.key)
    /\ lastCall.outcome = Returned(Undefined)
    /\ DOMAIN written[lastCall.world] # {}

\* C8 as claimed: a getData call made while this.page is undefined fails with
\* 'Page is not initialized'.
C8_DataLookupFailsUninitialized ==
    (lastCall.op = "getData" /\ page[lastCall.world] = Undefined)
        => lastCall.outcome = Threw(PageNotInitialized)

\* C8 as amended: a getData call made while this.page is undefined does not
\* throw; it returns the stored value or undefined.
C8_DataLookupNeverFails ==
    /\ \A w \in Worlds : \A key \in DataKeys :
          (Constructed(w) /\ page[w] = Undefined) => ~GetData(This(w), key).threw
    /\ (lastCall.op = "getData" /\ page[lastCall.world] = Undefined)
          => /\ ~lastCall.outcome.threw
             /\ lastCall.outcome.value \in DataValues \cup {Undefined}

\* getData has just returned a stored value in a World constructed but not yet
\* set up by the Before hook.
C8_Witness ==
    /\ lastCall.op = "getData"
    /\ phase[lastCall.world] = "created"
    /\ page[lastCall.world] = Undefined
    /\ ~lastCall.outcome.threw
    /\ lastCall.outcome.value \in DataValues

\* C2: in every state at most one object of each class exists in a World,
\* counting the objects the orchestrator constructors build.
C2_OneInstancePerType ==
    \A w \in Worlds : \A a, b \in Instances(w) : a.cls = b.cls => a = b

\* C9: when a scenario has ended, the After hook has called close() on the
\* context the Before hook created, whatever the result and whichever earlier
\* call of the hook rejected.
C9_AfterClosesContext ==
    \A w \in Worlds :
        (phase[w] = "ended" /\ context[w] # Undefined)
            => Called(hookLog[w], "context.close")

\* C10: when a scenario whose tracing was started has ended, the After hook
\* has stopped tracing and exactly one trace file exists for it, unless the
\* directory creation or tracing.stop itself was rejected.
C10_OneTracePerScenario ==
    \A w \in Worlds :
        (/\ phase[w] = "ended"
         /\ engine[w].tracing # "off"
         /\ ~Logged(hookLog[w], "mkdir", "rejected")
         /\ ~Logged(hookLog[w], "tracing.stop", "rejected"))
            => (artifacts[w].traces = 1 /\ engine[w].tracing = "stopped")

C12_FreshWorldIsEmpty ==
    \A w \in Worlds :
        phase[w] = "created"
            => /\ pageRegistry[w] = EmptyMap
               /\ orchestratorRegistry[w] = EmptyMap
               /\ scenarioData[w] = EmptyMap
               /\ page[w] = Undefined

\* A World has just been constructed in a worker whose earlier scenario ended
\* with both orchestrators registered and scenario data stored.
C12_Witness ==
    \E v, w \in Worlds :
        /\ v < w /\ worker[v] = worker[w]
        /\ phase[v] = "ended" /\ phase[w] = "created"
        /\ DOMAIN orchestratorRegistry[v] = {c.name : c \in OrchestratorClasses}
        /\ DOMAIN scenarioData[v] # {}

\* C13: a method call on one World (a step that records a new call of that
\* World) changes nothing another World returns: for every other World, what
\* getData, getPage and getOrchestrator would return is the same before and
\* after the call; and an object the call returns was allocated in the
\* calling World from its own Page handle.
C13_NoInterference ==
    [][\A a \in Worlds :
          (lastCall' # lastCall /\ lastCall'.world = a)
              => /\ \A b \in Worlds \ {a} :
                      /\ \A key \in DataKeys :
                            GetData(This(b), key)' = GetData(This(b), key)
                      /\ \A c \in PageClasses :
                            GetPage(This(b), c)' = GetPage(This(b), c)
                      /\ \A c \in OrchestratorClasses :
                            GetOrchestrator(This(b), c)' = GetOrchestrator(This(b), c)
                 /\ (lastCall'.op \in {"getPage", "getOrchestrator"}
                        /\ ~lastCall'.outcome.threw)
                       => /\ lastCall'.outcome.value.oid[1] = a
                          /\ lastCall'.outcome.value.page = PageOf(a)]_vars

\* The two Worlds are set up and their calls were interleaved: one World has
\* stored data and returned a page object and an orchestrator, and the other
\* has just got undefined for the same key while its registries are empty.
C13_Witness ==
    \E a \in Worlds :
        /\ lastCall.op = "getData"
        /\ lastCall.world # a
        /\ lastCall.outcome = Returned(Undefined)
        /\ page[lastCall.world] # Undefined
        /\ pageRegistry[lastCall.world] = EmptyMap
        /\ orchestratorRegistry[lastCall.world] = EmptyMap
        /\ MapHas(scenarioData[a], lastCall.arg.key)
        /\ \E x \in returned[a] : x[1] = "getPage"
        /\ \E x \in returned[a] : x[1] = "getOrchestrator"

\* C14 as claimed: while a scenario is running in a worker, no module variable
\* of the step-definition file holds an object of another scenario.
C14_OnlyBrowserShared ==
    \A w \in Worlds :
        phase[w] \in {"created", "steps"}
            => \A held \in {navigation_domain[worker[w]], content_domain[worker[w]]} :
                  held # Undefined => held.oid[1] = w

\* C14 as amended: the fields of a World hold only objects allocated in that
\* World from its own Page handle; the two module variables are shared by the
\* scenarios of a worker and may still hold the previous scenario's
\* orchestrators when a scenario starts, but from the first step a scenario
\* runs until its end they hold the orchestrators of its own registry.
C14_ModuleVariablesReassigned ==
    \A w \in Worlds :
        /\ \A o \in Instances(w) : o.oid[1] = w /\ o.page = PageOf(w)
        /\ (phase[w] = "steps" /\ orchestratorRegistry[w] # EmptyMap)
              => /\ navigation_domain[worker[w]]
                      = MapGet(orchestratorRegistry[w], NavigationOrchestrator.name)
                 /\ content_domain[worker[w]]
                      = MapGet(orchestratorRegistry[w], ContentOrchestrator.name)
                 /\ navigation_domain[worker[w]].cls = NavigationOrchestrator
                 /\ content_domain[worker[w]].cls = ContentOrchestrator

\* The second scenario of a worker has run a step: the module variables, which
\* held the first scenario's orchestrators, now hold its own.
C14_Witness ==
    \E v, w \in Worlds :
        /\ v < w /\ worker[v] = worker[w]
        /\ phase[v] = "ended" /\ orchestratorRegistry[v] # EmptyMap
        /\ phase[w] = "steps" /\ stepIdx[w] > 0
        /\ navigation_domain[worker[w]] # Undefined
        /\ navigation_domain[worker[w]].oid[1] = w
        /\ content_domain[worker[w]].oid[1] = w

\* C15: an orchestrator a World holds has exactly one page object of each
\* class its operations use, and every method call of an operation went to
\* that object: an operation constructs no further page object.
C15_OnePageObjectPerOrchestrator ==
    /\ \A w \in Worlds : \A a \in MapValues(orchestratorRegistry[w]) :
          \A op \in Operations(a.cls) : \A args \in Arguments(op) :
            \A i \in DOMAIN OrchestratorCalls(op, args) :
              LET on == OrchestratorCalls(op, args)[i].on
              IN  on # "this"
                    => /\ Cardinality({p \in a.parts : p.oid[Len(p.oid)] = on}) = 1
                       /\ Cardinality({p \in a.parts :
                                          p.cls = Collaborator(a, on).cls}) = 1
    /\ flow # NoFlow
          => /\ flow.orchestrator
                  = MapGet(orchestratorRegistry[flow.world], flow.orchestrator.cls.name)
             /\ \A i \in DOMAIN flow.log :
                   flow.log[i][1].on # "this"
                       => flow.log[i][1].target \in flow.orchestrator.parts

\* navigateToIndustrySection has run to its end: two method calls on the one
\* HomePage of the NavigationOrchestrator.
C15_Witness ==
    /\ flow.op = "navigateToIndustrySection"
    /\ ~flow.outcome.threw
    /\ \E i, j \in DOMAIN flow.log :
          /\ flow.log[i][1].seq # flow.log[j][1].seq
          /\ flow.log[i][1].target = flow.log[j][1].target
          /\ flow.log[i][1].target.cls = HomePage

\* C16: an orchestrator operation makes its calls in their order, each at most
\* once; a call that rejects is the last call it makes, and the operation then
\* fails with the error of that call; when no call rejects it makes them all
\* and does not fail.
C16_FailurePropagates ==
    flow # NoFlow
        => LET calls == Primitives(flow.orchestrator, flow.op, flow.args)
               log == flow.log
           IN  /\ Len(log) <= Len(calls)
               /\ \A i \in DOMAIN log : log[i][1] = calls[i]
               /\ \A i \in DOMAIN log :
                     log[i][2] = "rejected"
                         => /\ i = Len(log)
                            /\ flow.outcome = Threw(ErrorOf(log[i][1]))
               /\ (\A i \in DOMAIN log : log[i][2] = "resolved")
                     => /\ Len(log) = Len(calls)
                        /\ ~flow.outcome.threw

\* navigateToIndustrySectionArea has failed in its second page-object call,
\* after the first one went through and before the third one was made.
C16_Witness ==
    /\ flow.op = "navigateToIndustrySectionArea"
    /\ flow.outcome.threw
    /\ flow.log[Len(flow.log)] = <<flow.outcome.error.from, "rejected">>
    /\ flow.outcome.error.from.method = "openSection"
    /\ \E i \in DOMAIN flow.log : flow.log[i][1].method = "hoverOnIndustries"
    /\ \A i \in DOMAIN flow.log : flow.log[i][1].method # "scrollToSection"

\* C17: in every call of a page-object method that acts on an element, the
\* first call made is the wait for the element; a call that acts on the
\* element is made only after that wait has resolved; and when the wait
\* rejects, no call of that method acts and the operation fails with the
\* wait's timeout error.
C17_WaitThenAct ==
    /\ \A m \in ElementMethods : PageObjectCalls(m)[1] = "waitFor"
    /\ flow # NoFlow
          => \A i \in DOMAIN flow.log :
                LET call == flow.log[i][1]
                    same(j) == flow.log[j][1].seq = call.seq
                IN  call.method \in ElementMethods
                      => /\ call.primitive \in ElementActions
                              => \E j \in 1..(i - 1) :
                                    /\ same(j)
                                    /\ flow.log[j] = <<flow.log[j][1], "resolved">>
                                    /\ flow.log[j][1].primitive = "waitFor"
                         /\ (call.primitive = "waitFor" /\ flow.log[i][2] = "rejected")
                              => /\ \A j \in DOMAIN flow.log :
                                       same(j) => flow.log[j][1].primitive
                                                      \notin ElementActions
                                 /\ flow.outcome.threw
                                 /\ flow.outcome.error.name = "TimeoutError"
                                 /\ flow.outcome.error.from = call

\* clickNavigationButton has failed because the wait for the button timed
\* out: the log ends with the rejected wait and holds no click.
C17_Witness ==
    /\ flow.op = "clickNavigationButton"
    /\ flow.outcome.threw
    /\ flow.outcome.error.name = "TimeoutError"
    /\ flow.log[Len(flow.log)][2] = "rejected"
    /\ flow.log[Len(flow.log)][1].method = "clickButton"
    /\ flow.log[Len(flow.log)][1].primitive = "waitFor"
    /\ \A i \in DOMAIN flow.log : flow.log[i][1].primitive # "click"

\* C18: the browser of a worker process is launched at most once, and before
\* any World of the worker is constructed or given a context; a Before hook
\* creates its context from the open browser; the browser is closed only from
\* the open state and only when the After hook of every scenario of the worker
\* has run, and it is never opened again.
C18_BrowserLaunchedOnce ==
    [][/\ \A k \in Workers :
             browser'[k] # browser[k]
                 => \/ /\ browser[k] = "undefined"
                       /\ browser'[k] \in {"open", "launchFailed"}
                       /\ \A w \in Worlds :
                             worker[w] = k => phase[w] = "none" /\ context[w] = Undefined
                    \/ /\ browser[k] = "open"
                       /\ browser'[k] = "closed"
                       /\ \A w \in Worlds :
                             worker[w] = k => phase[w] = "ended" /\ hookLog[w] # <<>>
       /\ \A w \in Worlds :
             /\ context'[w] # context[w] => browser[worker[w]] = "open"
             /\ hookLog'[w] # hookLog[w] => browser[worker[w]] = "open"]_vars

\* A worker that ran both scenarios has closed its browser: each scenario got
\* a context from it and the After hook of each closed that context.
C18_Witness ==
    \E k \in Workers :
        /\ browser[k] = "closed"
        /\ \A w \in Worlds :
              /\ worker[w] = k
              /\ context[w] # Undefined
              /\ Logged(hookLog[w], "context.close", "resolved")

\* C19: the slowMo passed to chromium.launch is the value of SLOWMO when that
\* variable is set, and otherwise 500 in headed mode and 0 in headless mode.
C19_SlowMoFromOption ==
    \A k \in Workers :
        launch[k] # Undefined
            => launch[k].slowMo =
                  (CASE env.SLOWMO = "0" -> 0
                     [] env.SLOWMO = "250" -> 250
                     [] OTHER -> IF launch[k].headless THEN 0 ELSE 500)

\* C20: when run.js was given --headed, every browser is launched with
\* headless false, whatever HEADLESS and CI were in its environment.
C20_HeadedIsVisible ==
    \A k \in Workers :
        (options.headed /\ launch[k] # Undefined) => launch[k].headless = FALSE

\* C21: in a run without --fail-fast, a scenario that has ended with status
\* FAILED has had its browsing context closed by its After hook, and every
\* scenario that has ended was started: it was not skipped, its hooks ran, and
\* the context it holds is its own.
C21_RunContinuesAfterFailure ==
    ~options.debug
        => \A w \in Worlds :
              phase[w] = "ended"
                  => /\ (result[w] = "FAILED" /\ context[w] # Undefined)
                           => Called(hookLog[w], "context.close")
                     /\ result[w] # "SKIPPED"
                     /\ Called(hookLog[w], "mkdir")
                     /\ context[w] \in {Undefined, ContextOf(w)}

C23_DataFrame ==
    [][/\ (lastCall' # lastCall /\ lastCall'.op = "setData")
            => LET w == lastCall'.world
                   key == lastCall'.arg.key
               IN  /\ DOMAIN scenarioData'[w] = DOMAIN scenarioData[w] \cup {key}
                   /\ scenarioData'[w][key] = lastCall'.arg.value
                   /\ \A k \in DOMAIN scenarioData[w] \ {key} :
                         scenarioData'[w][k] = scenarioData[w][k]
                   /\ \A v \in Worlds \ {w} : scenarioData'[v] = scenarioData[v]
                   /\ UNCHANGED <<pageRegistry, orchestratorRegistry, page, context>>
                   /\ UNCHANGED <<runnerVars, moduleVars, browserVars>>
       /\ (lastCall' # lastCall /\ lastCall'.op = "getData")
            => UNCHANGED <<worldVars, runnerVars, moduleVars, browserVars>>]_vars

\* setData has just replaced the value of one key by a different one in a
\* World that holds the other key, a page object and an orchestrator.
C23_Witness ==
    /\ lastCall.op = "setData"
    /\ lastCall.cached
    /\ lastCall.arg.replaced # lastCall.arg.value
    /\ DOMAIN scenarioData[lastCall.world] = DataKeys
    /\ pageRegistry[lastCall.world] # EmptyMap
    /\ orchestratorRegistry[lastCall.world] # EmptyMap

\* C24: the calls an After hook has made are in the order screenshot,
\* tracing.stop, page.close, context.close, each made at most once; when the
\* page was closed the trace had been stopped and written before, and when
\* the context was closed the page, if there was one, had been closed before.
C24_AfterOrder ==
    \A w \in Worlds :
        LET log == hookLog[w]
            order == <<"mkdir", "screenshot", "tracing.stop", "page.close", "context.close">>
            rank(name) == CHOOSE r \in DOMAIN order : order[r] = name
        IN  /\ \A i, j \in DOMAIN log : i < j => rank(log[i][1]) < rank(log[j][1])
            /\ Called(log, "page.close")
                  => Logged(log, "tracing.stop", "resolved") /\ artifacts[w].traces = 1
            /\ (Called(log, "context.close") /\ page[w] # Undefined)
                  => Logged(log, "page.close", "resolved")
            /\ Called(log, "tracing.stop")
                  => artifacts[w].screenshots
                        = (IF Logged(log, "screenshot", "resolved") THEN 1 ELSE 0)

\* The After hook of a scenario that failed in a step has made all four calls
\* and none was rejected.
C24_Witness ==
    \E w \in Worlds :
        /\ phase[w] = "ended"
        /\ stepIdx[w] = Len(Pickle(w))
        /\ orchestratorRegistry[w] # EmptyMap
        /\ hookLog[w] = <<<<"mkdir", "resolved">>, <<"screenshot", "resolved">>,
                          <<"tracing.stop", "resolved">>, <<"page.close", "resolved">>,
                          <<"context.close", "resolved">>>>


\* C25: a call navigateToIndustrySectionArea(section, area) makes the page
\* object calls homePage.hoverOnIndustries(), homePage.openSection(section),
\* retirementPage.scrollToSection(area), in that order and none of them twice,
\* whatever the two arguments are: every call it has started is the expected
\* one at its position, none is left out or repeated, and a call that returned
\* has made all three.
C25_SectionAreaSequence ==
    flow.op = "navigateToIndustrySectionArea"
        => LET expected ==
                   <<MethodCall("homePage", "hoverOnIndustries", <<>>),
                     MethodCall("homePage", "openSection", <<flow.args[1]>>),
                     MethodCall("retirementPage", "scrollToSection", <<flow.args[2]>>)>>
               started == {flow.log[i][1].seq : i \in DOMAIN flow.log}
           IN  /\ \A i \in DOMAIN flow.log :
                     LET call == flow.log[i][1]
                     IN  /\ call.seq \in DOMAIN expected
                         /\ MethodCall(call.on, call.method, call.args) = expected[call.seq]
                         /\ \A j \in 1..(i - 1) :
                               /\ flow.log[j][1].seq <= call.seq
                               /\ flow.log[j][1] # call
               /\ started = 1..Cardinality(started)
               /\ ~flow.outcome.threw => started = DOMAIN expected
               /\ OrchestratorCalls(flow.op, flow.args) = expected

\* navigateToIndustrySectionArea has returned after a call whose two arguments
\* are the same text, and its last awaited call was the scroll.
C25_Witness ==
    /\ flow.op = "navigateToIndustrySectionArea"
    /\ flow.args[1] = flow.args[2]
    /\ ~flow.outcome.threw
    /\ flow.log # <<>>
    /\ flow.log[Len(flow.log)][1].method = "scrollToSection"


\* C26: the context a Before hook opened is closed when the scenario has
\* ended, so that a worker never has two contexts open and has none open once
\* its browser is closed by AfterAll.
C26_ContextClosedByAfter ==
    /\ \A w \in Worlds : phase[w] = "ended" => engine[w].context # "open"
    /\ \A k \in Workers :
          Cardinality({w \in Worlds : worker[w] = k /\ engine[w].context = "open"}) <= 1
    /\ \A w \in Worlds :
          browser[worker[w]] = "closed" => engine[w].context # "open"


\* C27: the two registries are separate namespaces.  What getPage does is the
\* same whatever the orchestrator registry holds, and it leaves that registry
\* as it was; what getOrchestrator does is the same whatever the page registry
\* holds, and it leaves that registry as it was; and the instance a World
\* returned from getPage is never the instance it returned from
\* getOrchestrator, also for the same class.
C27_IndependentNamespaces ==
    \A w \in Worlds :
        /\ \A c \in SharedClasses \cup PageClasses :
              LET r == GetPage(This(w), c)
                  blind == GetPage([This(w) EXCEPT !.orchestratorRegistry = EmptyMap], c)
              IN  /\ r.outcome = blind.outcome
                  /\ r.cached = blind.cached
                  /\ r.this.pageRegistry = blind.this.pageRegistry
                  /\ r.this.orchestratorRegistry = orchestratorRegistry[w]
        /\ \A c \in SharedClasses \cup OrchestratorClasses :
              LET r == GetOrchestrator(This(w), c)
                  blind == GetOrchestrator([This(w) EXCEPT !.pageRegistry = EmptyMap], c)
              IN  /\ r.outcome = blind.outcome
                  /\ r.cached = blind.cached
                  /\ r.this.orchestratorRegistry = blind.this.orchestratorRegistry
                  /\ r.this.pageRegistry = pageRegistry[w]
        /\ \A x, y \in returned[w] :
              (x[1] = "getPage" /\ y[1] = "getOrchestrator") => x[3] # y[3]
        /\ \A name \in DOMAIN pageRegistry[w] \cap DOMAIN orchestratorRegistry[w] :
              pageRegistry[w][name] # orchestratorRegistry[w][name]

\* A World has returned an instance of one class from getPage and an instance
\* of the same class from getOrchestrator, and holds both under the same key.
C27_Witness ==
    \E w \in Worlds : \E x, y \in returned[w] :
        /\ x[1] = "getPage"
        /\ y[1] = "getOrchestrator"
        /\ x[2] = y[2]
        /\ x[3] # y[3]
        /\ pageRegistry[w][x[2].name] = x[3]
        /\ orchestratorRegistry[w][x[2].name] = y[3]
        /\ lastCall.world = w


\* C28: a getPage or getOrchestrator call that throws does so with 'Page is
\* not initialized', for a key its registry does not hold while this.page is
\* unset, and changes no registry, no scenario data and no handle of any
\* World; and once the Page handle of the World is set, the call that threw
\* returns a new instance built on that handle and leaves it in its registry
\* under the class name.
C28_FailedGetChangesNothing ==
    [][/\ (lastCall' # lastCall /\ lastCall'.outcome.threw)
            => /\ lastCall'.op \in {"getPage", "getOrchestrator"}
               /\ lastCall'.outcome.error = PageNotInitialized
               /\ page[lastCall'.world] = Undefined
               /\ lastCall'.arg.name \notin
                     DOMAIN (IF lastCall'.op = "getPage"
                             THEN pageRegistry[lastCall'.world]
                             ELSE orchestratorRegistry[lastCall'.world])
               /\ UNCHANGED worldVars
       /\ (lastCall.outcome.threw /\ page[lastCall.world] # Undefined)
            => LET w == lastCall.world
                   c == lastCall.arg
                   r == IF lastCall.op = "getPage" THEN GetPage(This(w), c)
                        ELSE GetOrchestrator(This(w), c)
                   registry == IF lastCall.op = "getPage" THEN r.this.pageRegistry
                               ELSE r.this.orchestratorRegistry
               IN  /\ ~r.outcome.threw
                   /\ ~r.cached
                   /\ r.outcome.value.cls = c
                   /\ r.outcome.value.page = page[w]
                   /\ MapGet(registry, c.name) = r.outcome.value
                   /\ (/\ lastCall' # lastCall
                       /\ lastCall'.world = w
                       /\ lastCall'.op = lastCall.op
                       /\ lastCall'.arg = c)
                         => /\ lastCall'.outcome = r.outcome
                            /\ MapGet(IF lastCall.op = "getPage" THEN pageRegistry'[w]
                                      ELSE orchestratorRegistry'[w], c.name)
                                  = r.outcome.value]_vars

\* The last call made on a World threw 'Page is not initialized' while the
\* World held scenario data, and the Before hook has since set the Page handle.
C28_Witness ==
    /\ lastCall.op \in {"getPage", "getOrchestrator"}
    /\ lastCall.outcome.threw
    /\ page[lastCall.world] # Undefined
    /\ scenarioData[lastCall.world] # EmptyMap
    /\ pageRegistry[lastCall.world] = EmptyMap
    /\ orchestratorRegistry[lastCall.world] = EmptyMap


\* C29: a collaborator keeps the Page handle it was constructed with.  A get
\* call that constructs binds the new object, and the page objects it builds,
\* to the handle the World holds at that moment; a get call for a key the
\* registry holds returns the held object and never throws, whatever the
\* World's handle is now; and no step, in particular none that reassigns,
\* clears or closes the handle, removes or replaces an object of a registry.
C29_NoInvalidation ==
    [][/\ (lastCall' # lastCall /\ lastCall'.op \in {"getPage", "getOrchestrator"})
            => LET w == lastCall'.world
                   name == lastCall'.arg.name
                   registry == IF lastCall'.op = "getPage" THEN pageRegistry[w]
                               ELSE orchestratorRegistry[w]
               IN  /\ lastCall'.cached = MapHas(registry, name)
                   /\ lastCall'.cached
                         => /\ ~lastCall'.outcome.threw
                            /\ lastCall'.outcome.value = registry[name]
                   /\ (~lastCall'.cached /\ ~lastCall'.outcome.threw)
                         => /\ lastCall'.outcome.value.page = page[w]
                            /\ \A part \in lastCall'.outcome.value.parts :
                                  part.page = page[w]
       /\ \A w \in Worlds :
             /\ \A name \in DOMAIN pageRegistry[w] :
                   MapGet(pageRegistry'[w], name) = pageRegistry[w][name]
             /\ \A name \in DOMAIN orchestratorRegistry[w] :
                   MapGet(orchestratorRegistry'[w], name) = orchestratorRegistry[w][name]
             /\ (page'[w] # page[w] \/ engine'[w].page # engine[w].page)
                   => UNCHANGED <<pageRegistry, orchestratorRegistry>>]_vars

\* A get call has returned a cached object bound to the handle of the Before
\* hook after that handle was closed and the World was given another one.
C29_Witness ==
    /\ lastCall.op \in {"getPage", "getOrchestrator"}
    /\ lastCall.cached
    /\ lastCall.outcome.value.page = PageOf(lastCall.world)
    /\ page[lastCall.world] = SecondPageOf(lastCall.world)
    /\ engine[lastCall.world].page = "closed"


\* C30: whenever the runner runs the body of a step of a scenario, the Page
\* handle of the scenario's World is set and the two module variables of its
\* worker hold exactly what that World returns from
\* getOrchestrator(NavigationOrchestrator) and
\* getOrchestrator(ContentOrchestrator): objects of the World's own registry,
\* built on its own handle, and the same objects for every step of the
\* scenario; the module variables of another worker are left as they were.
C30_StepUsesOwnOrchestrators ==
    [][\A w \in Worlds :
          (stepIdx'[w] = stepIdx[w] + 1 /\ phase[w] = "steps" /\ result[w] # "FAILED")
              => LET k == worker[w]
                     after == [id |-> w, page |-> page'[w],
                               pageRegistry |-> pageRegistry'[w],
                               orchestratorRegistry |-> orchestratorRegistry'[w],
                               scenarioData |-> scenarioData'[w]]
                 IN  /\ page[w] = PageOf(w)
                     /\ GetOrchestrator(after, NavigationOrchestrator).outcome
                           = Returned(navigation_domain'[k])
                     /\ GetOrchestrator(after, ContentOrchestrator).outcome
                           = Returned(content_domain'[k])
                     /\ GetOrchestrator(after, NavigationOrchestrator).cached
                     /\ GetOrchestrator(after, ContentOrchestrator).cached
                     /\ \A held \in {navigation_domain'[k], content_domain'[k]} :
                           /\ held \in MapValues(orchestratorRegistry'[w])
                           /\ held.oid[1] = w
                           /\ held.page = PageOf(w)
                           /\ \A v \in Worlds \ {w} :
                                 held \notin MapValues(orchestratorRegistry'[v])
                     /\ stepIdx[w] > 0
                           => /\ navigation_domain'[k] = navigation_domain[k]
                              /\ content_domain'[k] = content_domain[k]
                     /\ \A j \in Workers \ {k} :
                           /\ navigation_domain'[j] = navigation_domain[j]
                           /\ content_domain'[j] = content_domain[j]]_vars

\* The second scenario of a worker has run its last step and passed so far,
\* after a first scenario that ran steps of its own: the module variables hold
\* the second World's orchestrators, not the first's.
C30_Witness ==
    \E v, w \in Worlds :
        /\ v < w /\ worker[v] = worker[w]
        /\ phase[v] = "ended" /\ MapHas(orchestratorRegistry[v], NavigationOrchestrator.name)
        /\ phase[w] = "steps" /\ stepIdx[w] = Len(Pickle(w)) /\ result[w] = "PASSED"
        /\ navigation_domain[worker[w]]
              = MapGet(orchestratorRegistry[w], NavigationOrchestrator.name)
        /\ navigation_domain[worker[w]]
              # orchestratorRegistry[v][NavigationOrchestrator.name]
        /\ content_domain[worker[w]]
              = MapGet(orchestratorRegistry[w], ContentOrchestrator.name)

====
